---------------------------- MODULE Spec2Model ----------------------------
(***************************************************************************)
(* A model of samples/sample_pbr.cpp: command-line parsing                 *)
(* (handleCommandLineArgments), the tests of main, and the setup and       *)
(* cleanup callbacks handed to FilamentApp::run.                           *)
(*                                                                         *)
(* A std::string is a sequence of tokens: "" is << >>.  A numeric argument *)
(* is spelled character by character (<<"a","b","c">>), a path is one      *)
(* atomic token (<<"ok.png">>).                                            *)
(***************************************************************************)
EXTENDS Integers, Sequences, FiniteSets

VARIABLES
    argvOpts,               \* the options of argv, in command-line order
    argvArgs,               \* the positional arguments of argv (argv[optind..argc-1])
    optind,                 \* number of options getopt_long has consumed
    opt,                    \* local `opt` of handleCommandLineArgments
    arg,                    \* local `arg` of handleCommandLineArgments
    g_config,               \* Config: scale, splitView, iblDirectory, title
    g_pbrConfig,            \* PbrConfig: metallicRoughnessMap, baseColorMap
    g_filenames,            \* std::vector<Path>
    i,                      \* loop index of main's mesh loop (1-based into argvArgs)
    pc,                     \* position of the process
    exitCode,               \* exit status, NotExited while running
    out,                    \* what was written to std::cout
    err,                    \* what was written to std::cerr
    g_baseColorMap,         \* Texture*
    g_metallicRoughnessMap, \* Texture*
    g_material,             \* const Material*
    g_materialInstances,    \* std::map<std::string, MaterialInstance*>
    g_meshSet,              \* std::unique_ptr<MeshAssimp>
    g_light,                \* Entity
    shader,                 \* the std::string `shader` built by setup
    builder,                \* the MaterialBuilder of setup
    engine                  \* the engine's objects and the calls made to it

vars == <<argvOpts, argvArgs, optind, opt, arg, g_config, g_pbrConfig, g_filenames,
          i, pc, exitCode, out, err, g_baseColorMap, g_metallicRoughnessMap,
          g_material, g_materialInstances, g_meshSet, g_light, shader, builder,
          engine>>

parseVars == <<opt, arg, optind>>
inputVars == <<argvOpts, argvArgs>>
setupVars == <<g_baseColorMap, g_metallicRoughnessMap, g_material,
               g_materialInstances, g_meshSet, g_light, shader, builder, engine>>

---------------------------------------------------------------------------
(* Bounds of the model *)

MaxOpts == 2        \* options on a command line
MaxArgs == 2        \* positional arguments on a command line

---------------------------------------------------------------------------
(* The file system and the inputs *)

\* mesh paths a command line may name, and whether Path::exists() holds
MeshPaths == {"mesh.obj", "missing.obj"}
\* texture paths a command line may name
TexturePaths == {"ok.png", "corrupt.png", "none.png"}
\* files on disk
FilesOnDisk == {"mesh.obj", "ok.png", "corrupt.png"}
\* files stbi_load can decode
Decodable == {"ok.png"}

\* Path::exists() that finds every path
PathExistsAlways(p) == TRUE
PathExists(p) == p \in FilesOnDisk
StbiLoads(p) == p \in Decodable

\* arguments given to --scale
ScaleArgs == { <<"a", "b", "c">>, <<"2">>, <<"3", "x">>, <<"1", "e", "9", "9">>, << >> }

\* what getopt_long hands back for one option of argv: the option character
\* ("?" for an option that is not in OPTSTR/OPTIONS or lacks its argument)
\* and optarg
Options ==
    {[opt |-> o, arg |-> << >>] : o \in {"h", "?", "v"}}
    \cup {[opt |-> "i", arg |-> <<"ibl">>]}
    \cup {[opt |-> "s", arg |-> a] : a \in ScaleArgs}
    \cup {[opt |-> o, arg |-> <<p>>] : o \in {"p", "c"}, p \in TexturePaths}

SeqsUpTo(S, n) == UNION {[1..k -> S] : k \in 0..n}

---------------------------------------------------------------------------
(* std::stof on the spelled argument *)

Digits == {"0", "1", "2", "3", "4", "5", "6", "7", "8", "9"}
DigitVal(c) == CASE c = "0" -> 0 [] c = "1" -> 1 [] c = "2" -> 2 [] c = "3" -> 3
                 [] c = "4" -> 4 [] c = "5" -> 5 [] c = "6" -> 6 [] c = "7" -> 7
                 [] c = "8" -> 8 [] c = "9" -> 9

\* largest decimal exponent of a finite float (FLT_MAX is about 3.4e38)
FltMax10Exp == 38

\* length of the longest run of digits of s starting at position k
RECURSIVE DigitRun(_, _)
DigitRun(s, k) == IF k <= Len(s) /\ s[k] \in Digits THEN 1 + DigitRun(s, k + 1) ELSE 0

\* value of the n digits of s starting at position k
RECURSIVE DigitsVal(_, _, _)
DigitsVal(s, k, n) == IF n = 0 THEN 0
                      ELSE 10 * DigitsVal(s, k, n - 1) + DigitVal(s[k + n - 1])

\* 10^n, for the exponents of values inside the float range that ScaleArgs spells
RECURSIVE Pow10(_)
Pow10(n) == IF n = 0 THEN 1 ELSE 10 * Pow10(n - 1)

\* number of leading blanks of s from position k
RECURSIVE Blanks(_, _)
Blanks(s, k) == IF k <= Len(s) /\ s[k] = " " THEN 1 + Blanks(s, k + 1) ELSE 0

\* stof: skips blanks, reads an optional sign, the longest run of digits and an
\* optional exponent, and ignores whatever follows.  No digits: invalid_argument.
\* A value beyond the float range: out_of_range.
stof(s) ==
    LET b     == Blanks(s, 1) + 1
        neg   == b <= Len(s) /\ s[b] = "-"
        m0    == IF b <= Len(s) /\ s[b] \in {"-", "+"} THEN b + 1 ELSE b
        nm    == DigitRun(s, m0)
        e0    == m0 + nm
        hasE  == e0 <= Len(s) /\ s[e0] \in {"e", "E"} /\ DigitRun(s, e0 + 1) > 0
        ne    == IF hasE THEN DigitRun(s, e0 + 1) ELSE 0
        ex    == IF hasE THEN DigitsVal(s, e0 + 1, ne) ELSE 0
        mant  == DigitsVal(s, m0, nm)
    IN  IF nm = 0 THEN [throws |-> "invalid_argument", value |-> 0]
        ELSE IF mant # 0 /\ ex + nm - 1 > FltMax10Exp
             THEN [throws |-> "out_of_range", value |-> 0]
        ELSE [throws |-> "none",
              value  |-> (IF neg THEN -1 ELSE 1) * mant * Pow10(ex)]

---------------------------------------------------------------------------
(* Values *)

DefaultScale == 1       \* Config::scale before any --scale
NotExited == -1         \* exitCode of a running process

\* a default-constructed Config (app/Config.h): the fields this file uses
DefaultConfig == [scale |-> DefaultScale, splitView |-> FALSE,
                  iblDirectory |-> << >>, title |-> << >>]

\* a null pointer, a default-constructed Entity
NULL == [kind |-> "null", id |-> 0]

Usage == <<"usage">>    \* the text printUsage writes


\* an empty std::map
EmptyMap == [n \in {} |-> NULL]
MapPut(m, k, v) == [n \in DOMAIN m \cup {k} |-> IF n = k THEN v ELSE m[n]]

\* the elements of a finite set in some fixed order
RECURSIVE SetToSeq(_)
SetToSeq(S) == IF S = {} THEN << >>
               ELSE LET x == CHOOSE y \in S : TRUE IN <<x>> \o SetToSeq(S \ {x})

\* a call made to the engine (or to an object it owns): the function, the
\* object it is made on or given, and a further argument
Call(fn, h, a) == [fn |-> fn, h |-> h, a |-> a]

\* the engine before FilamentApp::run: no objects, no calls
NoEngine == [next |-> 1, created |-> {}, calls |-> << >>]

\* an object of kind k made by the engine state es
NewHandle(es, k) == [kind |-> k, id |-> es.next]
Create(es, k, fn, a) ==
    [next    |-> es.next + 1,
     created |-> es.created \cup {NewHandle(es, k)},
     calls   |-> Append(es.calls, Call(fn, NewHandle(es, k), a))]
Invoke(es, fn, h, a) == [es EXCEPT !.calls = Append(@, Call(fn, h, a))]

---------------------------------------------------------------------------
(* handleCommandLineArgments *)

\* `case 's'` that stores 0 when stof throws
ScaleAfterZero(cur, a) == IF stof(a).throws = "none" THEN stof(a).value ELSE 0

\* `case 'v'` that inverts the flag
SplitViewToggled(cur) == ~cur

\* config->scale after `case 's'` with argument a
ScaleAfter(cur, a) == IF stof(a).throws = "none" THEN stof(a).value ELSE cur

\* config->splitView after `case 'v'`
SplitViewAfter(cur) == TRUE

\* getopt_long has another option to hand back
GetoptHasNext == pc = "parse" /\ optind < Len(argvOpts)
NextOpt == argvOpts[optind + 1]

\* one turn of the while loop: getopt_long returns the option o
Getopt(o) ==
    /\ GetoptHasNext
    /\ NextOpt.opt = o
    /\ opt' = o
    /\ arg' = NextOpt.arg
    /\ optind' = optind + 1

\* `default: case 'h':` without the exit: the usage is printed and parsing goes on
HelpExitFallsThrough ==
    /\ out' = Append(out, Usage)
    /\ UNCHANGED <<exitCode, pc>>

\* what `default: case 'h':` does to the process
HelpExit ==
    /\ out' = Append(out, Usage)
    /\ exitCode' = 0
    /\ pc' = "exited"

OptHelp ==
    /\ \E o \in {"h", "?"} : Getopt(o)
    /\ HelpExit
    /\ UNCHANGED <<inputVars, g_config, g_pbrConfig, g_filenames, i, err, setupVars>>

OptIbl ==
    /\ Getopt("i")
    /\ g_config' = [g_config EXCEPT !.iblDirectory = arg']
    /\ UNCHANGED <<inputVars, g_pbrConfig, g_filenames, i, pc, exitCode, out, err,
                   setupVars>>

OptScale ==
    /\ Getopt("s")
    /\ g_config' = [g_config EXCEPT !.scale = ScaleAfter(@, arg')]
    /\ UNCHANGED <<inputVars, g_pbrConfig, g_filenames, i, pc, exitCode, out, err,
                   setupVars>>

OptSplitView ==
    /\ Getopt("v")
    /\ g_config' = [g_config EXCEPT !.splitView = SplitViewAfter(@)]
    /\ UNCHANGED <<inputVars, g_pbrConfig, g_filenames, i, pc, exitCode, out, err,
                   setupVars>>

OptPackedMap ==
    /\ Getopt("p")
    /\ g_pbrConfig' = [g_pbrConfig EXCEPT !.metallicRoughnessMap = arg']
    /\ UNCHANGED <<inputVars, g_config, g_filenames, i, pc, exitCode, out, err,
                   setupVars>>

OptBaseColorMap ==
    /\ Getopt("c")
    /\ g_pbrConfig' = [g_pbrConfig EXCEPT !.baseColorMap = arg']
    /\ UNCHANGED <<inputVars, g_config, g_filenames, i, pc, exitCode, out, err,
                   setupVars>>

---------------------------------------------------------------------------
(* main, up to FilamentApp::run *)

\* the test of num_args off by one
TooFewArgsBelowZero(num_args) == num_args < 0

\* `num_args < 1`
TooFewArgs(num_args) == num_args < 1

\* getopt_long returns -1; main computes num_args and prints the usage or
\* enters the mesh loop
MainNumArgs ==
    /\ pc = "parse"
    /\ optind = Len(argvOpts)
    /\ opt' = "EOF"
    /\ IF TooFewArgs(Len(argvArgs))
       THEN /\ out' = Append(out, Usage)
            /\ exitCode' = 1
            /\ pc' = "exited"
       ELSE /\ pc' = "mesh"
            /\ UNCHANGED <<out, exitCode>>
    /\ UNCHANGED <<inputVars, arg, optind, g_config, g_pbrConfig, g_filenames, i, err,
                   setupVars>>

\* one turn of `for (int i = option_index; i < argc; i++)`; the message names
\* argv[option_index], the first positional argument
MainMeshLoop ==
    /\ pc = "mesh"
    /\ i <= Len(argvArgs)
    /\ IF ~PathExists(argvArgs[i])
       THEN /\ err' = Append(err, <<"file", argvArgs[1], "not found!">>)
            /\ exitCode' = 1
            /\ pc' = "exited"
            /\ UNCHANGED <<g_filenames, i>>
       ELSE /\ g_filenames' = Append(g_filenames, argvArgs[i])
            /\ i' = i + 1
            /\ UNCHANGED <<err, exitCode, pc>>
    /\ UNCHANGED <<inputVars, parseVars, g_config, g_pbrConfig, out, setupVars>>

\* the loop ends: the title is set and FilamentApp::run is entered
MainRun ==
    /\ pc = "mesh"
    /\ i > Len(argvArgs)
    /\ g_config' = [g_config EXCEPT !.title = <<"PBR">>]
    /\ pc' = "run"
    /\ UNCHANGED <<inputVars, parseVars, g_pbrConfig, g_filenames, i, exitCode, out, err,
                   setupVars>>

---------------------------------------------------------------------------
(* loadTexture *)

\* loadTexture without the test `data != nullptr`: a texture is built from
\* whatever stbi_load returned
loadTextureNoNullTest(es, filePath, map, sRGB) ==
    IF filePath = << >> THEN [es |-> es, map |-> map, out |-> << >>]
    ELSE LET path == filePath[1] IN
         IF ~PathExists(path)
         THEN [es |-> es, map |-> map,
               out |-> << <<"The texture", path, "does not exist">> >>]
         ELSE LET built == Create(es, "Texture", "Texture::Builder::build",
                                  <<IF sRGB THEN "SRGB8" ELSE "RGB8">>)
                  tex   == NewHandle(es, "Texture")
                  image == Invoke(built, "Texture::setImage", tex, <<path>>)
                  mips  == Invoke(image, "Texture::generateMipmaps", tex, << >>)
              IN  [es |-> mips, map |-> tex, out |-> << >>]

\* the result of loadTexture(engine, filePath, map, sRGB) in engine state es:
\* the engine afterwards, *map afterwards, and the lines written to std::cout
loadTexture(es, filePath, map, sRGB) ==
    IF filePath = << >> THEN [es |-> es, map |-> map, out |-> << >>]
    ELSE LET path == filePath[1] IN
         IF ~PathExists(path)
         THEN [es |-> es, map |-> map,
               out |-> << <<"The texture", path, "does not exist">> >>]
         ELSE IF ~StbiLoads(path)
         THEN [es |-> es, map |-> map,
               out |-> << <<"The texture", path, "could not be loaded">> >>]
         ELSE LET built == Create(es, "Texture", "Texture::Builder::build",
                                  <<IF sRGB THEN "SRGB8" ELSE "RGB8">>)
                  tex   == NewHandle(es, "Texture")
                  image == Invoke(built, "Texture::setImage", tex, <<path>>)
                  mips  == Invoke(image, "Texture::generateMipmaps", tex, << >>)
              IN  [es |-> mips, map |-> tex, out |-> << >>]

---------------------------------------------------------------------------
(* The shader text of setup, token by token *)

Prologue ==
    <<"void material(inout MaterialInputs material) {", "prepareMaterial(material);">>
BaseColorSample ==
    <<"material.baseColor.rgb", "=", "texture(", "materialParams_baseColorMap", ",",
      "getUV0()", ").rgb;">>
BaseColorFixed ==
    <<"material.baseColor.rgb", "=", "float3(1.0, 0.75, 0.94);">>
MetallicRoughnessSample ==
    <<"vec2 metallicRoughness", "=", "texture(", "materialParams_metallicRoughnessMap",
      ",", "getUV0()", ").rg;",
      "material.metallic", "=", "metallicRoughness.x;",
      "material.roughness", "=", "metallicRoughness.y;">>
MetallicRoughnessFixed ==
    <<"material.metallic", "=", "0.0;", "material.roughness", "=", "0.1;">>
Epilogue == <<"}">>

\* the base-colour clause with its branches exchanged
BaseColorClauseSwapped(hasBaseColorMap) ==
    IF hasBaseColorMap THEN BaseColorFixed ELSE BaseColorSample

\* the clause appended for the base colour
BaseColorClause(hasBaseColorMap) ==
    IF hasBaseColorMap THEN BaseColorSample ELSE BaseColorFixed

\* the clause appended for metallic and roughness
MetallicRoughnessClause(hasMetallicRoughnessMap) ==
    IF hasMetallicRoughnessMap THEN MetallicRoughnessSample ELSE MetallicRoughnessFixed

\* the shader with the metallic/roughness clause appended before the test of
\* the base-colour map and once more after it
BuildShaderTwice(hasBaseColorMap, hasMetallicRoughnessMap) ==
    Prologue \o MetallicRoughnessClause(hasMetallicRoughnessMap)
             \o BaseColorClause(hasBaseColorMap)
             \o MetallicRoughnessClause(hasMetallicRoughnessMap) \o Epilogue

\* `shader` when setup hands it to the MaterialBuilder
BuildShader(hasBaseColorMap, hasMetallicRoughnessMap) ==
    Prologue \o BaseColorClause(hasBaseColorMap)
             \o MetallicRoughnessClause(hasMetallicRoughnessMap) \o Epilogue

\* the sampler parameters with the base-colour sampler declared unconditionally
BuilderParametersAlways(hasBaseColorMap, hasMetallicRoughnessMap) ==
    {<<"SAMPLER_2D", "baseColorMap">>}
    \cup (IF hasMetallicRoughnessMap THEN {<<"SAMPLER_2D", "metallicRoughnessMap">>}
          ELSE {})

\* the sampler parameters setup declares on the MaterialBuilder
BuilderParameters(hasBaseColorMap, hasMetallicRoughnessMap) ==
    (IF hasBaseColorMap THEN {<<"SAMPLER_2D", "baseColorMap">>} ELSE {})
    \cup (IF hasMetallicRoughnessMap THEN {<<"SAMPLER_2D", "metallicRoughnessMap">>}
          ELSE {})

\* the vertex attributes setup requires on the MaterialBuilder
BuilderRequires(hasBaseColorMap, hasMetallicRoughnessMap) ==
    IF hasBaseColorMap \/ hasMetallicRoughnessMap THEN {"UV0"} ELSE {}

\* the MaterialBuilder of setup
MaterialBuilder(hasBaseColorMap, hasMetallicRoughnessMap) ==
    [name       |-> "DefaultMaterial",
     properties |-> {"BASE_COLOR", "METALLIC", "ROUGHNESS"},
     material   |-> BuildShader(hasBaseColorMap, hasMetallicRoughnessMap),
     shading    |-> "LIT",
     requires   |-> BuilderRequires(hasBaseColorMap, hasMetallicRoughnessMap),
     parameters |-> BuilderParameters(hasBaseColorMap, hasMetallicRoughnessMap)]

\* the setParameter calls setup makes on the material instance mi
BindParameters(es, mi, hasBaseColorMap, hasMetallicRoughnessMap, baseColorMap, metallicRoughnessMap) ==
    LET b == IF hasBaseColorMap
             THEN Invoke(es, "MaterialInstance::setParameter", mi,
                         <<"baseColorMap", baseColorMap>>)
             ELSE es
    IN  IF hasMetallicRoughnessMap
        THEN Invoke(b, "MaterialInstance::setParameter", mi,
                    <<"metallicRoughnessMap", metallicRoughnessMap>>)
        ELSE b

---------------------------------------------------------------------------
(* setup; FilamentApp::run calls it once, enters the application loop and *)
(* calls cleanup once when the loop ends                                  *)

\* material names a mesh file may bring and addFromFile may add to the map it
\* is given by reference (MeshAssimp is outside this file: any subset may appear)
MeshMaterials == {"MeshMaterial"}

\* addFromFile on each of files[k..], then the transform of the renderables
RECURSIVE AddFromFiles(_, _, _, _)
AddFromFiles(es, meshSet, files, k) ==
    IF k > Len(files) THEN es
    ELSE AddFromFiles(Invoke(es, "MeshAssimp::addFromFile", meshSet, <<files[k]>>),
                      meshSet, files, k + 1)

\* the instances addFromFile creates for the material names in names[k..]
RECURSIVE AddMeshMaterials(_, _, _, _)
AddMeshMaterials(es, map, names, k) ==
    IF k > Len(names) THEN [es |-> es, map |-> map]
    ELSE AddMeshMaterials(
             Create(es, "MaterialInstance", "Material::createInstance", <<names[k]>>),
             MapPut(map, names[k], NewHandle(es, "MaterialInstance")),
             names, k + 1)

\* LightManager::Builder::build on the entity: the entity gets a light component
BuildLight(es, entity) ==
    [es EXCEPT !.created = @ \cup {[kind |-> "Light", id |-> entity.id]},
               !.calls   = Append(@, Call("LightManager::Builder::build", entity,
                                          <<"DIRECTIONAL">>))]

Setup ==
    /\ pc = "run"
    /\ \E meshNames \in SUBSET MeshMaterials :
       LET bc     == loadTexture(engine, g_pbrConfig.baseColorMap, g_baseColorMap, TRUE)
           mr     == loadTexture(bc.es, g_pbrConfig.metallicRoughnessMap,
                                 g_metallicRoughnessMap, FALSE)
           hasBaseColorMap         == bc.map # NULL
           hasMetallicRoughnessMap == mr.map # NULL
           eMat   == Create(mr.es, "Material", "Material::Builder::build",
                            <<"DefaultMaterial">>)
           mat    == NewHandle(mr.es, "Material")
           eInst  == Create(eMat, "MaterialInstance", "Material::createInstance",
                            <<"DefaultMaterial">>)
           inst   == NewHandle(eMat, "MaterialInstance")
           eBound == BindParameters(eInst, inst, hasBaseColorMap,
                                    hasMetallicRoughnessMap, bc.map, mr.map)
           eMesh  == Create(eBound, "MeshAssimp", "MeshAssimp::MeshAssimp", <<"OPENGL">>)
           mesh   == NewHandle(eBound, "MeshAssimp")
           eFiles == AddFromFiles(eMesh, mesh, g_filenames, 1)
           added  == AddMeshMaterials(eFiles, MapPut(g_materialInstances,
                                                     "DefaultMaterial", inst),
                                      SetToSeq(meshNames), 1)
           eMoved == Invoke(added.es, "TransformManager::setTransform", mesh,
                            <<g_config.scale>>)
           eEnt   == Create(eMoved, "Entity", "EntityManager::create", << >>)
           light  == NewHandle(eMoved, "Entity")
           eLight == Invoke(BuildLight(eEnt, light), "Scene::addEntity", light, << >>)
       IN  /\ g_baseColorMap' = bc.map
           /\ g_metallicRoughnessMap' = mr.map
           /\ out' = out \o bc.out \o mr.out
           /\ shader' = BuildShader(hasBaseColorMap, hasMetallicRoughnessMap)
           /\ builder' = MaterialBuilder(hasBaseColorMap, hasMetallicRoughnessMap)
           /\ g_material' = mat
           /\ g_materialInstances' = added.map
           /\ g_meshSet' = mesh
           /\ g_light' = light
           /\ engine' = eLight
    /\ pc' = "loop"
    /\ UNCHANGED <<inputVars, parseVars, g_config, g_pbrConfig, g_filenames, i,
                   exitCode, err>>

---------------------------------------------------------------------------
(* cleanup *)

\* engine->destroy on every instance of the map, names[k..] in turn
RECURSIVE DestroyInstances(_, _, _, _)
DestroyInstances(es, map, names, k) ==
    IF k > Len(names) THEN es
    ELSE DestroyInstances(Invoke(es, "Engine::destroy", map[names[k]], << >>),
                          map, names, k + 1)

\* g_meshSet.reset(nullptr): deletes the mesh set the pointer owns, if any
ResetMeshSet(es, meshSet) ==
    IF meshSet = NULL THEN es ELSE Invoke(es, "MeshAssimp::~MeshAssimp", meshSet, << >>)

\* cleanup that forgets the material
CleanupCallsLeaky(es, instances, meshSet, material, metallicRoughnessMap, baseColorMap, light) ==
    LET e1 == DestroyInstances(es, instances, SetToSeq(DOMAIN instances), 1)
        e2 == ResetMeshSet(e1, meshSet)
        e4 == Invoke(e2, "Engine::destroy", metallicRoughnessMap, << >>)
        e5 == Invoke(e4, "Engine::destroy", baseColorMap, << >>)
        e6 == Invoke(e5, "Engine::destroy", light, << >>)
    IN  Invoke(e6, "EntityManager::destroy", light, << >>)

\* the calls of cleanup, in order
CleanupCalls(es, instances, meshSet, material, metallicRoughnessMap, baseColorMap, light) ==
    LET e1 == DestroyInstances(es, instances, SetToSeq(DOMAIN instances), 1)
        e2 == ResetMeshSet(e1, meshSet)
        e3 == Invoke(e2, "Engine::destroy", material, << >>)
        e4 == Invoke(e3, "Engine::destroy", metallicRoughnessMap, << >>)
        e5 == Invoke(e4, "Engine::destroy", baseColorMap, << >>)
        e6 == Invoke(e5, "Engine::destroy", light, << >>)
    IN  Invoke(e6, "EntityManager::destroy", light, << >>)

Cleanup ==
    /\ pc = "loop"
    /\ engine' = CleanupCalls(engine, g_materialInstances, g_meshSet, g_material,
                              g_metallicRoughnessMap, g_baseColorMap, g_light)
    /\ g_meshSet' = NULL
    /\ pc' = "cleaned"
    /\ UNCHANGED <<inputVars, parseVars, g_config, g_pbrConfig, g_filenames, i,
                   exitCode, out, err, g_baseColorMap, g_metallicRoughnessMap,
                   g_material, g_materialInstances, g_light, shader, builder>>

\* FilamentApp::run returns and main returns 0
MainReturn ==
    /\ pc = "cleaned"
    /\ exitCode' = 0
    /\ pc' = "exited"
    /\ UNCHANGED <<inputVars, parseVars, g_config, g_pbrConfig, g_filenames, i, out,
                   err, setupVars>>

---------------------------------------------------------------------------
(* The program *)

Init ==
    /\ argvOpts \in SeqsUpTo(Options, MaxOpts)
    /\ argvArgs \in SeqsUpTo(MeshPaths, MaxArgs)
    /\ optind = 0
    /\ opt = "none"
    /\ arg = << >>
    /\ g_config = DefaultConfig
    /\ g_pbrConfig = [metallicRoughnessMap |-> << >>, baseColorMap |-> << >>]
    /\ g_filenames = << >>
    /\ i = 1
    /\ pc = "parse"
    /\ exitCode = NotExited
    /\ out = << >>
    /\ err = << >>
    /\ g_baseColorMap = NULL
    /\ g_metallicRoughnessMap = NULL
    /\ g_material = NULL
    /\ g_materialInstances = EmptyMap
    /\ g_meshSet = NULL
    /\ g_light = NULL
    /\ shader = << >>
    /\ builder = [name |-> "", properties |-> {}, material |-> << >>, shading |-> "",
                  requires |-> {}, parameters |-> {}]
    /\ engine = NoEngine

Next ==
    \/ OptHelp
    \/ OptIbl
    \/ OptScale
    \/ OptSplitView
    \/ OptPackedMap
    \/ OptBaseColorMap
    \/ MainNumArgs
    \/ MainMeshLoop
    \/ MainRun
    \/ Setup
    \/ Cleanup
    \/ MainReturn

Spec == Init /\ [][Next]_vars

---------------------------------------------------------------------------
(* What the claims speak of *)

HelpOpts == {"h", "?"}

\* the command line holds --help / -h or an unknown option
HasHelp == \E k \in 1..Len(argvOpts) : argvOpts[k].opt \in HelpOpts
\* the place of the first of them
FirstHelp == CHOOSE k \in 1..Len(argvOpts) :
                 /\ argvOpts[k].opt \in HelpOpts
                 /\ \A j \in 1..(k - 1) : argvOpts[j].opt \notin HelpOpts

\* some positional mesh path is not on disk
SomeMeshMissing == \E k \in 1..Len(argvArgs) : argvArgs[k] \notin FilesOnDisk

\* the setup callback has run (it always builds the shader and calls the engine)
SetupRan == shader # << >> \/ engine # NoEngine \/ pc \in {"loop", "cleaned"}

\* nothing of setup has happened: no texture, no material, no application loop
NothingSetUp ==
    /\ ~SetupRan
    /\ pc # "run"
    /\ g_baseColorMap = NULL /\ g_metallicRoughnessMap = NULL /\ g_material = NULL

\* the option o was given on the command line
Given(o) == \E k \in 1..Len(argvOpts) : argvOpts[k].opt = o

C2_AsStated ==
    (pc = "exited" /\ argvArgs = << >>) => (exitCode = 1 /\ out = <<Usage>>)

\* C2, amended: a command line without positional argument ends with the usage
\* printed; the exit code is 1 unless the options hold --help / -h or an unknown
\* option, and then it is 0.  Setup is not run.
C2_NoPositionalUsage ==
    argvArgs = << >> =>
        /\ NothingSetUp
        /\ pc # "mesh"
        /\ pc = "exited" =>
              /\ out = <<Usage>>
              /\ err = << >>
              /\ exitCode = (IF HasHelp THEN 0 ELSE 1)

\* a run without positional argument and with two options that ended with 1
C2_Witness ==
    /\ pc = "exited" /\ exitCode = 1 /\ argvArgs = << >>
    /\ Len(argvOpts) = 2 /\ g_config.splitView /\ g_pbrConfig.baseColorMap # << >>

\* C6: once getopt_long hands back --help / -h or an unknown option, the usage
\* is printed and the process has exited with code 0, with or without
\* positional arguments; the options after it are not consumed and leave no
\* trace, the mesh loop is not entered and setup is not run.
C6_HelpExitsZero ==
    /\ opt \in HelpOpts =>
          /\ pc = "exited" /\ exitCode = 0
          /\ out = <<Usage>> /\ err = << >>
          /\ optind = FirstHelp
          /\ g_filenames = << >> /\ i = 1
          /\ NothingSetUp
          /\ g_config.splitView =
                 (\E k \in 1..(optind - 1) : argvOpts[k].opt = "v")
          /\ g_pbrConfig.baseColorMap # << >> =>
                 (\E k \in 1..(optind - 1) : argvOpts[k].opt = "c")
    /\ (HasHelp /\ optind >= FirstHelp) => opt \in HelpOpts

\* --help met with an option after it and a positional argument present
C6_Witness ==
    /\ opt = "h" /\ pc = "exited"
    /\ optind < Len(argvOpts) /\ argvOpts[optind + 1].opt = "v"
    /\ argvArgs # << >>

\* sub occurs in s as a run of consecutive tokens
Contains(s, sub) ==
    \E k \in 0..(Len(s) - Len(sub)) : SubSeq(s, k + 1, k + Len(sub)) = sub

\* the number of places of s that hold the token t
Count(s, t) == Cardinality({k \in 1..Len(s) : s[k] = t})

\* the texture file named by a path string can be read and decoded
Loadable(filePath) ==
    filePath # << >> /\ filePath[1] \in FilesOnDisk /\ filePath[1] \in Decodable

\* C3 as stated: with only --basecolor-map given the shader holds the
\* base-colour sample clause and not the metallic/roughness sample clause, and
\* with only --packed-map given it is the other way round.
C3_AsStated ==
    SetupRan =>
        /\ (Given("c") /\ ~Given("p")) =>
              /\ Contains(shader, BaseColorSample)
              /\ ~Contains(shader, MetallicRoughnessSample)
        /\ (Given("p") /\ ~Given("c")) =>
              /\ Contains(shader, MetallicRoughnessSample)
              /\ ~Contains(shader, BaseColorSample)

\* C3, amended: with only --basecolor-map given the shader never holds the
\* metallic/roughness sample clause, and it holds the base-colour sample clause
\* exactly when the file named (by the last such option) exists and decodes,
\* the fixed colour otherwise; the same with the two maps exchanged when only
\* --packed-map is given.
C3_OnlyOneMap ==
    SetupRan =>
        /\ (Given("c") /\ ~Given("p")) =>
              /\ ~Contains(shader, MetallicRoughnessSample)
              /\ Contains(shader, MetallicRoughnessFixed)
              /\ Contains(shader, BaseColorSample) <=> Loadable(g_pbrConfig.baseColorMap)
              /\ Contains(shader, BaseColorFixed) <=> ~Loadable(g_pbrConfig.baseColorMap)
        /\ (Given("p") /\ ~Given("c")) =>
              /\ ~Contains(shader, BaseColorSample)
              /\ Contains(shader, BaseColorFixed)
              /\ Contains(shader, MetallicRoughnessSample)
                     <=> Loadable(g_pbrConfig.metallicRoughnessMap)
              /\ Contains(shader, MetallicRoughnessFixed)
                     <=> ~Loadable(g_pbrConfig.metallicRoughnessMap)

\* setup ran with only --basecolor-map, naming a file that decodes
C3_Witness ==
    /\ pc = "loop" /\ Given("c") /\ ~Given("p")
    /\ g_pbrConfig.baseColorMap = <<"ok.png">>
    /\ Contains(shader, BaseColorSample)

\* C4: the shader setup builds is the prologue, one base-colour clause, one
\* metallic/roughness clause and the closing brace, in this order; each clause
\* is the texture sample iff its texture handle is non-null; with neither map
\* given it is the all-fallback text.
C4_ShaderShape ==
    SetupRan =>
        /\ shader = Prologue
                    \o (IF g_baseColorMap # NULL THEN BaseColorSample ELSE BaseColorFixed)
                    \o (IF g_metallicRoughnessMap # NULL THEN MetallicRoughnessSample
                        ELSE MetallicRoughnessFixed)
                    \o Epilogue
        /\ Count(shader, "material.baseColor.rgb") = 1
        /\ Count(shader, "material.metallic") = 1
        /\ Count(shader, "material.roughness") = 1
        /\ builder.material = shader
        /\ (~Given("c") /\ ~Given("p")) =>
              shader = Prologue \o BaseColorFixed \o MetallicRoughnessFixed \o Epilogue

\* setup ran with neither map given
C4_Witness ==
    /\ pc = "loop" /\ ~Given("c") /\ ~Given("p") /\ Len(argvOpts) = 2
    /\ shader = Prologue \o BaseColorFixed \o MetallicRoughnessFixed \o Epilogue

\* the setParameter calls made for the sampler `name`
SetParameterCalls(name) ==
    {k \in 1..Len(engine.calls) :
        /\ engine.calls[k].fn = "MaterialInstance::setParameter"
        /\ engine.calls[k].a[1] = name}

\* for one map: shader reference, declaration, binding and handle agree
SamplerConsistent(name, token, handle) ==
    /\ (Count(shader, token) > 0) <=> (handle # NULL)
    /\ (<<"SAMPLER_2D", name>> \in builder.parameters) <=> (handle # NULL)
    /\ (SetParameterCalls(name) # {}) <=> (handle # NULL)
    /\ (handle # NULL) => "UV0" \in builder.requires
    /\ \A k \in SetParameterCalls(name) :
          /\ engine.calls[k].a[2] = handle
          /\ engine.calls[k].h = g_materialInstances["DefaultMaterial"]
    /\ Cardinality(SetParameterCalls(name)) <= 1

\* C10: after setup, for each of the two maps, the shader references
\* materialParams_<map> iff the builder declares the SAMPLER_2D parameter <map>
\* (and then requires UV0) iff setParameter(<map>, texture) was called on the
\* material instance iff the texture handle is non-null; the texture bound is
\* that handle, and UV0 is read by the shader only if it is required.
C10_SamplersAgree ==
    SetupRan =>
        /\ SamplerConsistent("baseColorMap", "materialParams_baseColorMap",
                             g_baseColorMap)
        /\ SamplerConsistent("metallicRoughnessMap",
                             "materialParams_metallicRoughnessMap",
                             g_metallicRoughnessMap)
        /\ builder.parameters \subseteq
               {<<"SAMPLER_2D", "baseColorMap">>, <<"SAMPLER_2D", "metallicRoughnessMap">>}
        /\ (Count(shader, "getUV0()") > 0) <=> ("UV0" \in builder.requires)

\* setup ran with one texture loaded and the other one given but not loaded
C10_Witness ==
    /\ pc = "loop"
    /\ g_baseColorMap = NULL /\ g_pbrConfig.baseColorMap = <<"none.png">>
    /\ g_metallicRoughnessMap # NULL
    /\ SetParameterCalls("metallicRoughnessMap") # {}

\* the engine calls of the function fn
CallsOf(fn) == {k \in 1..Len(engine.calls) : engine.calls[k].fn = fn}

\* what loadTexture left for one texture path
TextureOutcome(filePath, handle, format) ==
    IF filePath = << >> THEN handle = NULL
    ELSE IF Loadable(filePath)
    THEN /\ handle # NULL /\ handle.kind = "Texture" /\ handle \in engine.created
         /\ \E k \in CallsOf("Texture::Builder::build") :
               /\ engine.calls[k].h = handle
               /\ engine.calls[k].a = <<format>>
               /\ engine.calls[k + 1].fn = "Texture::setImage"
               /\ engine.calls[k + 1].h = handle
               /\ engine.calls[k + 2].fn = "Texture::generateMipmaps"
               /\ engine.calls[k + 2].h = handle
    ELSE /\ handle = NULL
         /\ \E k \in 1..Len(out) :
               out[k] = <<"The texture", filePath[1],
                          IF filePath[1] \in FilesOnDisk THEN "could not be loaded"
                          ELSE "does not exist">>

\* the rest of setup was carried out: material, instance, meshes, light
SetupCompleted ==
    /\ g_material \in engine.created /\ g_material.kind = "Material"
    /\ "DefaultMaterial" \in DOMAIN g_materialInstances
    /\ g_materialInstances["DefaultMaterial"] \in engine.created
    /\ \A f \in 1..Len(g_filenames) :
          \E k \in CallsOf("MeshAssimp::addFromFile") : engine.calls[k].a = <<g_filenames[f]>>
    /\ g_filenames = argvArgs
    /\ g_light \in engine.created /\ g_light.kind = "Entity"
    /\ [kind |-> "Light", id |-> g_light.id] \in engine.created
    /\ CallsOf("Scene::addEntity") # {}

\* C8: for each texture path given, after setup: if the file exists and
\* decodes, the texture was built, given its image and its mipmaps, and the
\* handle is non-null; otherwise a message was printed and the handle is null;
\* in both cases setup went on to the material, the meshes and the light and
\* the process did not exit with an error.  Each handle depends on its own
\* path only.
C8_TextureOutcomes ==
    SetupRan =>
        /\ TextureOutcome(g_pbrConfig.baseColorMap, g_baseColorMap, "SRGB8")
        /\ TextureOutcome(g_pbrConfig.metallicRoughnessMap, g_metallicRoughnessMap, "RGB8")
        /\ Cardinality(CallsOf("Texture::Builder::build")) =
               Cardinality({g_baseColorMap, g_metallicRoughnessMap} \ {NULL})
        /\ Len(out) = Cardinality({m \in {"c", "p"} :
                          LET filePath == IF m = "c" THEN g_pbrConfig.baseColorMap
                                          ELSE g_pbrConfig.metallicRoughnessMap
                          IN  filePath # << >> /\ ~Loadable(filePath)})
        /\ SetupCompleted
        /\ exitCode \in {NotExited, 0}
        /\ pc = "loop" => exitCode = NotExited

\* setup ran with a base-colour file that does not decode and a packed map
\* that loads
C8_Witness ==
    /\ pc = "loop"
    /\ g_pbrConfig.baseColorMap = <<"corrupt.png">> /\ g_baseColorMap = NULL
    /\ g_pbrConfig.metallicRoughnessMap = <<"ok.png">> /\ g_metallicRoughnessMap # NULL
    /\ out = << <<"The texture", "corrupt.png", "could not be loaded">> >>

\* the calls that release something
ReleaseCalls ==
    CallsOf("Engine::destroy") \cup CallsOf("EntityManager::destroy")
        \cup CallsOf("MeshAssimp::~MeshAssimp")

\* the object a release call is about: Engine::destroy on an entity releases
\* the entity's light component, every other call the object it is given
Released(c) ==
    IF c.fn = "Engine::destroy" /\ c.h.kind = "Entity"
    THEN [kind |-> "Light", id |-> c.h.id]
    ELSE c.h

ReleaseCount(r) == Cardinality({k \in ReleaseCalls : Released(engine.calls[k]) = r})

\* cleanup has run
CleanupRan == pc = "cleaned" \/ (pc = "exited" /\ SetupRan)

\* C7 as stated: after setup and cleanup every object created in setup was
\* released exactly once, and every release call is about an object that was
\* created.
C7_AsStated ==
    CleanupRan =>
        /\ \A r \in engine.created : ReleaseCount(r) = 1
        /\ \A k \in ReleaseCalls : Released(engine.calls[k]) \in engine.created

\* C7, amended: after setup and cleanup every object created in setup (the
\* textures that loaded, the material, every instance of the map, the mesh
\* set, the light and its entity) was released exactly once; every release
\* call is about such an object, except that cleanup calls Engine::destroy on
\* each of the two texture handles whether or not the texture was loaded, so
\* there is one Engine::destroy with a null pointer for each texture that was
\* not loaded.  No release call is made before cleanup.
C7_ReleasedOnce ==
    /\ pc = "loop" => ReleaseCalls = {}
    /\ CleanupRan =>
          /\ \A r \in engine.created : ReleaseCount(r) = 1
          /\ \A k \in ReleaseCalls :
                \/ Released(engine.calls[k]) \in engine.created
                \/ engine.calls[k].fn = "Engine::destroy" /\ engine.calls[k].h = NULL
          /\ Cardinality({k \in ReleaseCalls : engine.calls[k].h = NULL}) =
                 Cardinality({m \in {"c", "p"} :
                     (IF m = "c" THEN g_baseColorMap ELSE g_metallicRoughnessMap) = NULL})
          /\ {g_material, g_light} \subseteq engine.created
          /\ \A n \in DOMAIN g_materialInstances : g_materialInstances[n] \in engine.created
          /\ \E r \in engine.created : r.kind = "MeshAssimp"
          /\ g_meshSet = NULL

\* cleanup ran after a setup that loaded one texture and not the other and in
\* which a mesh file added an instance to the map
C7_Witness ==
    /\ pc = "cleaned"
    /\ g_baseColorMap # NULL /\ g_metallicRoughnessMap = NULL
    /\ Cardinality(DOMAIN g_materialInstances) = 2

\* getopt_long has just handed back the option o
Parsed(o) == optind' = optind + 1 /\ opt' = o

\* stof cannot convert the argument a
Unparsable(a) == stof(a).throws # "none"

C9_AsStated ==
    [][Parsed("v") => g_config'.splitView = ~g_config.splitView]_vars

\* C9, amended: each --split-view sets the four-pane flag to true, whatever its
\* value was (a second occurrence leaves it true); no other step changes it.
C9_SplitViewSet ==
    [][/\ Parsed("v") => g_config'.splitView = TRUE
       /\ ~Parsed("v") => g_config'.splitView = g_config.splitView]_vars

\* --split-view has just been parsed for the second time
C9_Witness ==
    /\ opt = "v" /\ optind = 2 /\ argvOpts[1].opt = "v" /\ g_config.splitView

=============================================================================
